---- MODULE Spec2Model ----
(***************************************************************************)
(* A model of src/main.py (Image-watermarker): the geometry calculators    *)
(* offset and resize, the path builder build_output_path, the compositor   *)
(* add_watermark, the batch driver add_watermarks_to_directory and the     *)
(* command-line entry point.                                               *)
(*                                                                         *)
(* Strings are sequences of one-character strings, so that lower(),        *)
(* endswith(), os.path.join and os.path.basename are computed, not assumed.*)
(* A float is a dyadic rational                                            *)
(* num / 2^exp: such a value is exact in binary floating point, and so is  *)
(* its product with a small integer, hence int(width * scale_factor) is    *)
(* the exact truncation computed below.                                    *)
(***************************************************************************)
EXTENDS Integers, Sequences, FiniteSets, TLC

\* ------------------------------------------------------------------ bounds

\* Largest width and height of a decoded base image.
MaxDim == 3
\* Largest width and height of the watermark file as decoded.
MaxWmDim == 2
\* Largest number of entries os.listdir returns.
MaxEntries == 2
\* Largest numerator of a float scale factor num / 2^exp.
MaxNum == 5
\* Largest exponent of the denominator of a float scale factor.
MaxExp == 2
\* Largest width and height in the pure run of offset.
MaxGeomDim == 5

\* ------------------------------------------------------------------ values

\* Python's None: a tuple no string or size equals.
None == <<"None">>

RECURSIVE Pow2(_)
Pow2(n) == IF n = 0 THEN 1 ELSE 2 * Pow2(n - 1)

\* ----------------------------------------------------------------- strings

Lower(c) ==
    CASE c = "J" -> "j"
      [] c = "P" -> "p"
      [] c = "G" -> "g"
      [] c = "N" -> "n"
      [] OTHER -> c

LowerStr(s) == [i \in 1..Len(s) |-> Lower(s[i])]

EndsWith(s, suffix) ==
    /\ Len(suffix) <= Len(s)
    /\ SubSeq(s, Len(s) - Len(suffix) + 1, Len(s)) = suffix

\* str.endswith(tuple): true when any member of the tuple is a suffix.
EndsWithAny(s, suffixes) == \E e \in suffixes : EndsWith(s, e)

IMAGE_FILE_EXTENSIONS ==
    { <<".", "j", "p", "g">>,
      <<".", "j", "p", "e", "g">>,
      <<".", "p", "n", "g">>,
      <<".", "g", "i", "f">>,
      <<".", "b", "m", "p">> }

\* posixpath.join(a, b)
Join(a, b) ==
    IF Len(b) > 0 /\ b[1] = "/" THEN b
    ELSE IF Len(a) = 0 \/ a[Len(a)] = "/" THEN a \o b
    ELSE a \o <<"/">> \o b

\* the greatest index of "/" in p, 0 when there is none (str.rfind + 1)
RECURSIVE RFindSep(_, _)
RFindSep(p, i) ==
    IF i = 0 THEN 0
    ELSE IF p[i] = "/" THEN i
    ELSE RFindSep(p, i - 1)

\* posixpath.basename(p)
Basename(p) == SubSeq(p, RFindSep(p, Len(p)) + 1, Len(p))

WATERMARKED_PREFIX == <<"w", "a", "t", "e", "r", "m", "a", "r", "k", "e", "d", "_">>

\* ---------------------------------------------------------------- geometry

VALID_POSITIONS == {"top-left", "bottom-left", "top-right", "bottom-right", "center"}

\* Python's // : floor division, also for a negative dividend.
FloorDiv2(n) == IF n >= 0 THEN n \div 2 ELSE -((1 - n) \div 2)

\* offset with the operands of every subtraction exchanged.
offset_swapped(original_size, watermark_size, position) ==
    CASE position = "top-left" -> <<0, 0>>
      [] position = "bottom-left" -> <<0, watermark_size[2] - original_size[2]>>
      [] position = "top-right" -> <<watermark_size[1] - original_size[1], 0>>
      [] position = "bottom-right" ->
            <<watermark_size[1] - original_size[1], watermark_size[2] - original_size[2]>>
      [] position = "center" ->
            <<FloorDiv2(watermark_size[1] - original_size[1]),
              FloorDiv2(watermark_size[2] - original_size[2])>>
      [] OTHER -> None

\* offset with bottom-left reading the base image's width for its height.
offset_axis(original_size, watermark_size, position) ==
    CASE position = "top-left" -> <<0, 0>>
      [] position = "bottom-left" -> <<0, original_size[1] - watermark_size[2]>>
      [] position = "top-right" -> <<original_size[1] - watermark_size[1], 0>>
      [] position = "bottom-right" ->
            <<original_size[1] - watermark_size[1], original_size[2] - watermark_size[2]>>
      [] position = "center" ->
            <<FloorDiv2(original_size[1] - watermark_size[1]),
              FloorDiv2(original_size[2] - watermark_size[2])>>
      [] OTHER -> None

\* offset(original_image, watermark, position): the ValueError of an unknown
\* position is caught inside the function, which then returns None.
offset(original_size, watermark_size, position) ==
    CASE position = "top-left" -> <<0, 0>>
      [] position = "bottom-left" -> <<0, original_size[2] - watermark_size[2]>>
      [] position = "top-right" -> <<original_size[1] - watermark_size[1], 0>>
      [] position = "bottom-right" ->
            <<original_size[1] - watermark_size[1], original_size[2] - watermark_size[2]>>
      [] position = "center" ->
            <<FloorDiv2(original_size[1] - watermark_size[1]),
              FloorDiv2(original_size[2] - watermark_size[2])>>
      [] OTHER -> None

\* int(x) of the float width * num / 2^exp: truncation toward zero.
TruncMul(width, sf) ==
    IF width * sf.num >= 0 THEN (width * sf.num) \div Pow2(sf.exp)
    ELSE -((-(width * sf.num)) \div Pow2(sf.exp))

\* resize(original_image_size, scale_factor): every error is caught inside
\* the function, which then returns None.
resize(original_image_size, scale_factor) ==
    IF scale_factor.type # "float" THEN None
    ELSE IF scale_factor.num <= 0 THEN None
    ELSE <<TruncMul(original_image_size[1], scale_factor),
           TruncMul(original_image_size[2], scale_factor)>>

\* build_output_path without the "watermarked_" prefix.
build_output_path_noprefix(file_name, output_path) ==
    IF file_name = <<>> \/ output_path = <<>> THEN None
    ELSE Join(output_path, file_name)

\* build_output_path(file_name, output_path): None when either is empty.
build_output_path(file_name, output_path) ==
    IF file_name = <<>> \/ output_path = <<>> THEN None
    ELSE Join(output_path, WATERMARKED_PREFIX \o file_name)

\* ------------------------------------------------------------------ inputs

S_d == <<"d">>
S_o == <<"o", "/">>
S_a_png == <<"a", ".", "p", "n", "g">>
S_b_txt == <<"b", ".", "t", "x", "t">>
S_c_JPG == <<"c", ".", "J", "P", "G">>
S_sub == <<"s", "u", "b">>
S_e_png == <<"e", ".", "p", "n", "g">>

\* What a directory may hold: files and subdirectories, by name.
EntryPool ==
    { [name |-> S_a_png, isdir |-> FALSE],
      [name |-> S_b_txt, isdir |-> FALSE],
      [name |-> S_c_JPG, isdir |-> FALSE],
      [name |-> S_sub, isdir |-> TRUE],
      [name |-> S_e_png, isdir |-> TRUE] }

\* The results of os.listdir: sequences of distinct entries.
Listings ==
    UNION { { l \in [1..n -> EntryPool] : \A i, j \in 1..n : i # j => l[i] # l[j] }
            : n \in 0..MaxEntries }

BaseSizes == (1..MaxDim) \X (1..MaxDim)
WmSizes == (1..MaxWmDim) \X (1..MaxWmDim)

Positions == VALID_POSITIONS \cup {"middle"}

\* What the environment does to one call of add_watermark: nothing, or the
\* failure of one of the Image Library's calls.
Faults == {"none", "open_image", "open_watermark", "resize", "paste", "save"}

FloatScales == [type : {"float"}, num : (-1)..MaxNum, exp : 0..MaxExp]

\* --scale_watermark: argparse's default is the float 0.5; a value given on the
\* command line is kept as the string typed (the option sets no type), here the
\* text of num / 2^exp.
DEFAULT_SCALE == [type |-> "float", num |-> 1, exp |-> 1]
CliScales == {DEFAULT_SCALE, [type |-> "str", num |-> 1, exp |-> 0]}

\* --input with what os.path.isfile and os.path.isdir say of it.
CliInputs ==
    { [path |-> S_d, kind |-> "dir"],
      [path |-> S_d \o <<"/">> \o S_a_png, kind |-> "file"],
      [path |-> S_b_txt, kind |-> "file"],
      [path |-> S_sub, kind |-> "none"] }

CliArgs ==
    [input : CliInputs, watermark_position : Positions, scale_watermark : CliScales,
     output_directory : {S_o, S_d, <<>>}]

NoArgs == [input |-> [path |-> <<>>, kind |-> "none"], watermark_position |-> "",
           scale_watermark |-> DEFAULT_SCALE, output_directory |-> <<>>]

\* The parameters of one call of add_watermark, with the caller to return to,
\* whether image_path names a directory, and the environment's fault.
NoFrame == [image_path |-> <<>>, output_path |-> <<>>, position |-> "",
            scale_factor |-> DEFAULT_SCALE, file_name |-> <<>>, caller |-> "",
            isdir |-> FALSE, fault |-> "none"]

\* add_watermark called as a function of the module.
CallFrames ==
    [image_path : {S_d \o <<"/">> \o S_a_png}, output_path : {S_o, <<>>}, position : Positions,
     scale_factor : FloatScales \cup [type : {"int"}, num : {0, 1}, exp : {0}],
     file_name : {S_a_png, <<>>}, caller : {"call"}, isdir : {FALSE}, fault : Faults]

\* ------------------------------------------------------------------- state

VARIABLES
    entry,      \* "cli": the program run from the command line; "call": add_watermark called
    args,       \* the parsed command line
    pc,         \* where control is
    listing,    \* the result of os.listdir
    idx,        \* the driver's position in listing
    frame,      \* the running call of add_watermark
    image,      \* the size of the decoded original, None before it is opened
    watermark,  \* the size of the watermark image bound to the name watermark
    wmOrig,     \* the size of the watermark file as decoded
    open,       \* the image files now open
    pasted,     \* the pastes the running call performed
    saved,      \* the files written, in order
    calls,      \* the calls of add_watermark, in order
    out,        \* the kinds of the messages printed
    ret         \* the value offset returned when run on its own

vars == <<entry, args, pc, listing, idx, frame, image, watermark, wmOrig, open,
          pasted, saved, calls, out, ret>>

Fresh ==
    /\ listing = <<>>
    /\ idx = 0
    /\ image = None
    /\ watermark = None
    /\ wmOrig = None
    /\ open = {}
    /\ pasted = <<>>
    /\ saved = <<>>
    /\ calls = <<>>
    /\ out = <<>>
    /\ ret = None

\* The program started from the command line; an argument left out and then
\* prompted for is an argument like any other.
InitCli ==
    /\ entry = "cli"
    /\ args \in CliArgs
    /\ pc = "main"
    /\ frame = NoFrame
    /\ Fresh

InitCall ==
    /\ entry = "call"
    /\ args = NoArgs
    /\ pc = "call"
    /\ frame = NoFrame
    /\ Fresh

Init == InitCli \/ InitCall

\* ----------------------------------------------------------- add_watermark

\* Where control goes when add_watermark returns.
AfterReturn(caller) == IF caller = "driver" THEN "loop" ELSE "done"

\* An exception that left add_watermark: the driver's own handler ends its loop,
\* any other caller has no handler.
AfterFailure_propagate(caller) == IF caller = "driver" THEN "done" ELSE "crashed"

\* The except clauses of add_watermark catch every Exception and print it:
\* the function returns as it does on success.
AfterFailure(caller) == AfterReturn(caller)

\* A with block that releases only the image opened last.
WithExit_last(handles) == handles \ {"watermark"}

\* Leaving the with block releases every image it opened.
WithExit(handles) == handles \ {"image", "watermark"}

\* No check of the position.
PositionValid_any(position) == TRUE

\* position in valid_positions
PositionValid(position) == position \in VALID_POSITIONS

\* The watermark's own size scaled, in place of the original image's.
ResizeTarget_wm(image_size, watermark_size, scale_factor) ==
    resize(watermark_size, scale_factor)

\* The size the watermark is resized to.
ResizeTarget(image_size, watermark_size, scale_factor) ==
    resize(image_size, scale_factor)

\* The whole path passed as file_name.
FileNameOf_path(path) == path

\* file_name=os.path.basename(...), as both callers pass it.
FileNameOf(path) == Basename(path)

Call(fr) ==
    /\ pc' = "add_watermark"
    /\ frame' = fr
    /\ calls' = Append(calls, [image_path |-> fr.image_path, file_name |-> fr.file_name,
                               output_path |-> fr.output_path, position |-> fr.position,
                               scale_factor |-> fr.scale_factor, isdir |-> fr.isdir,
                               fault |-> fr.fault, result |-> "running",
                               pasted |-> FALSE])
    /\ pasted' = <<>>

\* add_watermark returns: the with block, when entered, is left, and the
\* messages are printed.
Finish(result, msgs, nextpc) ==
    /\ pc' = nextpc
    /\ idx' = IF frame.caller = "driver" THEN idx + 1 ELSE idx
    /\ calls' = [calls EXCEPT ![Len(calls)].result = result]
    /\ out' = out \o msgs
    /\ open' = WithExit(open)
    /\ frame' = NoFrame
    /\ image' = None
    /\ watermark' = None
    /\ wmOrig' = None
    /\ pasted' = <<>>

Fail(msgs) ==
    /\ Finish("failed", msgs, AfterFailure(frame.caller))
    /\ UNCHANGED <<entry, args, listing, saved, ret>>

\* The failure of a resize to a size with a dimension of 0: the image is too
\* small for the scale factor.
FailZero(msgs) ==
    /\ Finish("zero", msgs, AfterFailure(frame.caller))
    /\ UNCHANGED <<entry, args, listing, saved, ret>>

DirectCall ==
    /\ pc = "call"
    /\ \E fr \in CallFrames : Call(fr)
    /\ UNCHANGED <<entry, args, listing, idx, image, watermark, wmOrig, open, saved, out, ret>>

\* The argument checks: every path argument and the position are str in each
\* modelled call (argparse and input() yield str), so of the type checks only
\* that of scale_factor can fail; then the position check.
Validate ==
    /\ pc = "add_watermark"
    /\ IF frame.scale_factor.type # "float" THEN Fail(<<"TypeError">>)
       ELSE IF ~PositionValid(frame.position) THEN Fail(<<"ValueError">>)
       ELSE /\ pc' = "open_image"
            /\ UNCHANGED <<entry, args, listing, idx, frame, image, watermark, wmOrig,
                           open, pasted, saved, calls, out, ret>>

OpenImage ==
    /\ pc = "open_image"
    /\ IF frame.isdir \/ frame.fault = "open_image" THEN Fail(<<"Error">>)
       ELSE /\ \E s \in BaseSizes : image' = s
            /\ open' = open \cup {"image"}
            /\ pc' = "open_watermark"
            /\ UNCHANGED <<entry, args, listing, idx, frame, watermark, wmOrig,
                           pasted, saved, calls, out, ret>>

OpenWatermark ==
    /\ pc = "open_watermark"
    /\ IF frame.fault = "open_watermark" THEN Fail(<<"Error">>)
       ELSE /\ \E s \in WmSizes : watermark' = s /\ wmOrig' = s
            /\ open' = open \cup {"watermark"}
            /\ pc' = "resize"
            /\ UNCHANGED <<entry, args, listing, idx, frame, image,
                           pasted, saved, calls, out, ret>>

\* watermark = watermark.resize(resize(image.size, scale_factor)): resize prints
\* its own ValueError and returns None, which Image.resize rejects; Image.resize
\* rejects a size with a dimension of 0 as well.
ResizeWatermark ==
    /\ pc = "resize"
    /\ LET target == ResizeTarget(image, watermark, frame.scale_factor) IN
       IF target = None THEN Fail(<<"ValueError", "TypeError">>)
       ELSE IF target[1] <= 0 \/ target[2] <= 0 THEN FailZero(<<"ValueError">>)
       ELSE IF frame.fault = "resize" THEN Fail(<<"Error">>)
       ELSE /\ watermark' = target
            /\ pc' = "paste"
            /\ UNCHANGED <<entry, args, listing, idx, frame, image, wmOrig, open,
                           pasted, saved, calls, out, ret>>

\* The mask is built and the watermark pasted at offset(...); Image.paste takes
\* a box of None as (0, 0).
Paste ==
    /\ pc = "paste"
    /\ IF frame.fault = "paste" THEN Fail(<<"Error">>)
       ELSE LET off == offset(image, watermark, frame.position) IN
            /\ pasted' = Append(pasted,
                                 [box |-> IF off = None THEN <<0, 0>> ELSE off,
                                  size |-> watermark, base |-> image, orig |-> wmOrig,
                                  scale_factor |-> frame.scale_factor,
                                  position |-> frame.position])
            /\ calls' = [calls EXCEPT ![Len(calls)].pasted = TRUE]
            /\ pc' = "save"
            /\ UNCHANGED <<entry, args, listing, idx, frame, image, watermark, wmOrig,
                           open, saved, out, ret>>

\* build_output_path prints its own ValueError and returns None, which
\* Image.save rejects; otherwise the file is written and the success printed.
Save ==
    /\ pc = "save"
    /\ LET p == build_output_path(frame.file_name, frame.output_path) IN
       IF p = None THEN Fail(<<"ValueError", "ValueError">>)
       ELSE IF frame.fault = "save" THEN Fail(<<"Error">>)
       ELSE /\ saved' = Append(saved, [path |-> p, image_path |-> frame.image_path,
                                          call |-> Len(calls)])
            /\ Finish("saved", <<"Saved">>, AfterReturn(frame.caller))
            /\ UNCHANGED <<entry, args, listing, ret>>

\* ------------------------------------------- add_watermarks_to_directory

\* filepath.lower().endswith(IMAGE_FILE_EXTENSIONS)
Eligible(filepath) == EndsWithAny(LowerStr(filepath), IMAGE_FILE_EXTENSIONS)

\* os.listdir(directory): the entries, or an error the driver prints.
ListDir ==
    /\ pc = "listdir"
    /\ \/ /\ \E l \in Listings : listing' = l
          /\ idx' = 1
          /\ pc' = "loop"
          /\ out' = out
       \/ /\ out' = Append(out, "Error")
          /\ pc' = "done"
          /\ UNCHANGED <<listing, idx>>
    /\ UNCHANGED <<entry, args, frame, image, watermark, wmOrig, open, pasted, saved,
                   calls, ret>>

\* One round of the loop over the listing.
LoopStep ==
    /\ pc = "loop"
    /\ IF idx > Len(listing)
       THEN /\ pc' = "done"
            /\ UNCHANGED <<idx, frame, calls, pasted>>
       ELSE LET filepath == Join(args.input.path, listing[idx].name) IN
            IF Eligible(filepath)
            THEN /\ \E f \in Faults :
                      Call([image_path |-> filepath,
                            output_path |-> args.output_directory,
                            position |-> args.watermark_position,
                            scale_factor |-> args.scale_watermark,
                            file_name |-> FileNameOf(filepath),
                            caller |-> "driver",
                            isdir |-> listing[idx].isdir,
                            fault |-> f])
                 /\ idx' = idx
            ELSE /\ idx' = idx + 1
                 /\ UNCHANGED <<pc, frame, calls, pasted>>
    /\ UNCHANGED <<entry, args, listing, image, watermark, wmOrig, open, saved, out, ret>>

\* ---------------------------------------------------------------- __main__

\* os.makedirs of the output directory (an empty path raises, and nothing
\* catches it), then the dispatch on what the input is.
Main ==
    /\ pc = "main"
    /\ IF args.output_directory = <<>>
       THEN /\ pc' = "crashed"
            /\ UNCHANGED <<frame, calls, pasted, out>>
       ELSE IF args.input.kind = "file"
       THEN /\ \E f \in Faults :
                 Call([image_path |-> args.input.path,
                       output_path |-> args.output_directory,
                       position |-> args.watermark_position,
                       scale_factor |-> args.scale_watermark,
                       file_name |-> FileNameOf(args.input.path),
                       caller |-> "main",
                       isdir |-> FALSE,
                       fault |-> f])
            /\ out' = out
       ELSE IF args.input.kind = "dir"
       THEN /\ pc' = "listdir"
            /\ UNCHANGED <<frame, calls, pasted, out>>
       ELSE /\ out' = Append(out, "NotExist")
            /\ pc' = "done"
            /\ UNCHANGED <<frame, calls, pasted>>
    /\ UNCHANGED <<entry, args, listing, idx, image, watermark, wmOrig, open, saved, ret>>

Next ==
    \/ Main
    \/ DirectCall
    \/ ListDir
    \/ LoopStep
    \/ Validate
    \/ OpenImage
    \/ OpenWatermark
    \/ ResizeWatermark
    \/ Paste
    \/ Save

Spec == Init /\ [][Next]_vars

\* ------------------------------------------------------ offset on its own

GeomSizes == (1..MaxGeomDim) \X (1..MaxGeomDim)

InitGeom ==
    /\ entry = "geom"
    /\ args = NoArgs
    /\ pc = "offset"
    /\ \E p \in Positions : frame = [NoFrame EXCEPT !.position = p]
    /\ listing = <<>>
    /\ idx = 0
    /\ image \in GeomSizes
    /\ watermark \in GeomSizes
    /\ wmOrig = None
    /\ open = {}
    /\ pasted = <<>>
    /\ saved = <<>>
    /\ calls = <<>>
    /\ out = <<>>
    /\ ret = None

\* offset(original_image, watermark, position) is called and returns; an
\* unknown position prints the error.
ApplyOffset ==
    /\ pc = "offset"
    /\ ret' = offset(image, watermark, frame.position)
    /\ out' = IF ret' = None THEN Append(out, "Error") ELSE out
    /\ pc' = "done"
    /\ UNCHANGED <<entry, args, listing, idx, frame, image, watermark, wmOrig, open,
                   pasted, saved, calls>>

NextGeom == ApplyOffset

SpecGeom == InitGeom /\ [][NextGeom]_vars

\* ------------------------------------------------------------------ claims

\* The name of a directory entry ends, lowercased, with an image extension.
NameMatches(e) == EndsWithAny(LowerStr(e.name), IMAGE_FILE_EXTENSIONS)

BatchDone == entry = "cli" /\ args.input.kind = "dir" /\ pc = "done"

CallPaths == [i \in 1..Len(calls) |-> calls[i].image_path]

PathsOf(entries) == [i \in 1..Len(entries) |-> Join(args.input.path, entries[i].name)]

IsImageFile(e) == NameMatches(e) /\ ~e.isdir

\* C1: when a batch run ends, add_watermark was called exactly once for each
\* entry of the listing whose lowercased name ends with an image extension and
\* that is no subdirectory, in listing order, and for no other entry.
C1_OnlyImageFilesCalled ==
    BatchDone => CallPaths = PathsOf(SelectSeq(listing, IsImageFile))

\* The arguments of call i are valid and nothing fails for its file: the
\* environment injects no fault, the path is no directory and the image is
\* not too small for the scale factor.
NoFailure(i) ==
    /\ calls[i].fault = "none"
    /\ ~calls[i].isdir
    /\ calls[i].position \in VALID_POSITIONS
    /\ calls[i].scale_factor.type = "float"
    /\ calls[i].scale_factor.num > 0
    /\ calls[i].result # "zero"
    /\ calls[i].file_name # <<>>
    /\ calls[i].output_path # <<>>

SavedBy(i) == { k \in 1..Len(saved) : saved[k].call = i }

\* C2: when a batch run ends, every entry whose name matches was passed to
\* add_watermark, in listing order, whatever failed before it, and every such
\* entry that has no failure of its own was saved as watermarked_<name>.
C2_FailureIsolation ==
    BatchDone =>
        LET elig == SelectSeq(listing, NameMatches) IN
        /\ CallPaths = PathsOf(elig)
        /\ \A i \in 1..Len(calls) :
              /\ calls[i].result # "running"
              /\ NoFailure(i) =>
                    \E k \in SavedBy(i) :
                        saved[k].path =
                            Join(args.output_directory, WATERMARKED_PREFIX \o elig[i].name)

C2_Witness ==
    /\ BatchDone
    /\ Len(calls) = 2
    /\ calls[1].fault = "open_image"
    /\ calls[1].result = "failed"
    /\ NoFailure(2)
    /\ calls[2].result = "saved"
    /\ Len(saved) = 1

BadArgs(i) ==
    \/ calls[i].position \notin VALID_POSITIONS
    \/ /\ calls[i].scale_factor.type \in {"float", "int"}
       /\ calls[i].scale_factor.num <= 0

C4_OutputPath ==
    /\ \A k \in 1..Len(saved) :
          LET c == calls[saved[k].call] IN
          /\ c.file_name # <<>> /\ c.output_path # <<>>
          /\ saved[k].path = Join(c.output_path, WATERMARKED_PREFIX \o c.file_name)
          /\ entry = "cli" =>
                saved[k].path =
                    Join(args.output_directory, WATERMARKED_PREFIX \o Basename(c.image_path))
    /\ \A i \in 1..Len(calls) :
          (calls[i].file_name = <<>> \/ calls[i].output_path = <<>>) => SavedBy(i) = {}

C4_Witness ==
    /\ BatchDone
    /\ args.output_directory = S_o
    /\ Len(saved) = 2
    /\ saved[1].path = <<"o", "/">> \o WATERMARKED_PREFIX \o S_c_JPG
    /\ saved[2].path = <<"o", "/">> \o WATERMARKED_PREFIX \o S_a_png

Inside(base, size, box) ==
    /\ 0 <= box[1]
    /\ 0 <= box[2]
    /\ box[1] + size[1] <= base[1]
    /\ box[2] + size[2] <= base[2]

\* C5: for each of the five positions and a watermark no larger than the base
\* image in either dimension, offset returns a point that keeps the watermark
\* fully inside the base image.
C5_OffsetInside ==
    (/\ entry = "geom"
     /\ pc = "done"
     /\ frame.position \in VALID_POSITIONS
     /\ watermark[1] <= image[1]
     /\ watermark[2] <= image[2])
        => (ret # None /\ Inside(image, watermark, ret))

C5_Witness ==
    /\ entry = "geom"
    /\ pc = "done"
    /\ frame.position = "center"
    /\ image = <<5, 4>>
    /\ watermark = <<2, 3>>
    /\ ret = <<1, 0>>

\* floor(n * num / 2^exp) of a scale factor > 0
Scaled(n, sf) == (n * sf.num) \div Pow2(sf.exp)

C7_CliScaleUsed ==
    (/\ entry = "cli"
     /\ pc = "done"
     /\ args.input.kind = "file"
     /\ args.watermark_position \in VALID_POSITIONS
     /\ Len(calls) = 1
     /\ calls[1].fault = "none"
     /\ calls[1].result # "zero")
        => (calls[1].result = "saved" /\ Len(saved) = 1)

\* C8: outside the with block of add_watermark no image file is open: each
\* one opened is closed when add_watermark returns, however it returns.
C8_AllClosed ==
    pc \notin {"open_watermark", "resize", "paste", "save"} => open = {}

C8_Witness ==
    /\ BatchDone
    /\ Len(calls) = 2
    /\ calls[1].fault = "open_watermark"
    /\ calls[1].result = "failed"
    /\ calls[2].fault = "save"
    /\ calls[2].result = "failed"
    /\ open = {}

\* C9: in a run from the command line no file is saved over its own input,
\* and no two files are saved to the same path.
C9_NoOverwrite ==
    entry = "cli" =>
        /\ \A k \in 1..Len(saved) : saved[k].path # saved[k].image_path
        /\ \A k, m \in 1..Len(saved) : k # m => saved[k].path # saved[m].path

C9_Witness ==
    /\ BatchDone
    /\ args.input.path = S_d
    /\ args.output_directory = S_d
    /\ Len(saved) = 2

\* C10: a paste made with a scale factor in (0, 1] has a watermark no larger
\* than the base image and a box with x >= 0 and y >= 0 that keeps the
\* watermark inside the base image.
C10_PasteInside ==
    \A k \in 1..Len(pasted) :
        (/\ pasted[k].scale_factor.num > 0
         /\ pasted[k].scale_factor.num <= Pow2(pasted[k].scale_factor.exp))
            => /\ pasted[k].size[1] <= pasted[k].base[1]
               /\ pasted[k].size[2] <= pasted[k].base[2]
               /\ Inside(pasted[k].base, pasted[k].size, pasted[k].box)

C10_Witness ==
    /\ Len(pasted) = 1
    /\ pasted[1].scale_factor = [type |-> "float", num |-> 3, exp |-> 2]
    /\ pasted[1].position = "bottom-right"
    /\ pasted[1].base = <<3, 2>>
    /\ pasted[1].size = <<2, 1>>
    /\ pasted[1].box = <<1, 1>>

====
